---- MODULE Spec2Model ----
(***************************************************************************)
(* Model of PeplinkAPI (custom_components/peplink_local/peplink_api.py):   *)
(* the session state (_connected, _auth_cookie, _session, _own_session),   *)
(* the login/verification handshake of connect(), ensure_connected(), the  *)
(* request/retry wrapper _api_request() and the exception handling of the  *)
(* data accessors.  Coroutines are tasks; a task moves from one suspension *)
(* point (an awaited network operation) to the next in one step, and the   *)
(* router's answers are chosen nondeterministically.                       *)
(***************************************************************************)
EXTENDS Integers, FiniteSets, Sequences, TLC

VARIABLES connected, auth_cookie, session, own_session, task, data, hass

vars == <<connected, auth_cookie, session, own_session, task, data, hass>>

(* ---------------------------- bounds ----------------------------------- *)
\* number of distinct cookie values the router hands out
MaxTok == 2
\* largest reading of the millisecond timer used as cache-buster
MaxClock == 1

\* concurrently running coroutines that use one client instance
Tasks == {"t1", "t2"}

\* _auth_cookie is None or "" (both falsy): 0; a cookie value: 1..MaxTok
NoCookie == 0
\* a response that carries no bauth cookie / no Set-Cookie header at all
Absent == -1
NoReq == [method |-> "none", url |-> <<>>, body |-> "none"]
NoSent == [req |-> NoReq, cookie |-> Absent]

Accessors == {"get_wan_status", "get_clients", "get_system_info",
              "get_thermal_sensors", "get_fan_speeds", "get_device_info",
              "get_traffic_stats", "get_location"}

Sections == {"device", "thermal", "fan"}

HandshakePcs == {"login_req", "login_body", "verify_req", "verify_body"}
RequestPcs == {"req_wait", "retry_wait"}

\* exceptions that are instances of Exception (CancelledError is not)
Exceptions == {"Exception", "PeplinkSSLError", "JSONDecodeError",
               "AttributeError", "TypeError", "RuntimeError"}

(* ------------------------- local state of a task ----------------------- *)
IdleLocal ==
  [op |-> "none", pc |-> "idle", ret |-> "top", phase |-> "none",
   wanIfs |-> FALSE, req |-> NoReq, first |-> NoSent, second |-> NoSent,
   nreq |-> 0, nreauth |-> 0, reauthCookie |-> Absent, result |-> "none",
   connClosed |-> FALSE, apiClosed |-> FALSE,
   hs |-> "none", interfered |-> FALSE,
   expiry |-> "none", firstErr |-> FALSE, force |-> FALSE,
   apiEnd |-> "none", retryUnauth |-> FALSE, vcookie |-> Absent,
   normal |-> FALSE, hist |-> <<>>]

Globals == [connected |-> connected, auth_cookie |-> auth_cookie,
            session |-> session, own_session |-> own_session]

St(g, l) == [g |-> g, l |-> l]

(* ------------------------------ session -------------------------------- *)
\* _get_session: create a transport only when the client holds none
GetSession(g) ==
  IF g.session = "none"
    THEN [g EXCEPT !.session = "own", !.own_session = TRUE]
    ELSE g

(* --------------------------- URL formatting ---------------------------- *)
PhaseFunc(phase) ==
  CASE phase = "wan" -> "status.wan"
    [] phase = "client" -> "status.client"
    [] phase \in {"sysinfo", "thermal", "fan", "device"} -> "status.system.info"
    [] phase = "traffic" -> "status.traffic"
    [] phase = "wanstats" -> "status.wan.statistics"
    [] OTHER -> "info.location"

PhasePublic(phase) == phase \in {"wan", "client"}

PhaseInfoType(phase) ==
  CASE phase = "sysinfo" -> "device%20systemTime%20thermalSensor%20fanSpeed"
    [] phase = "thermal" -> "thermalSensor"
    [] phase = "fan" -> "fanSpeed"
    [] phase = "device" -> "device"
    [] OTHER -> "none"

\* _format_api_url: path style, or query style with the time as cache-buster
FormatApiUrl(func, public_api, infoType, now) ==
  IF public_api
    THEN <<"/api/", func>>
    ELSE IF infoType = "none"
      THEN <<"/cgi-bin/MANGA/api.cgi", func, now>>
      ELSE <<"/cgi-bin/MANGA/api.cgi", func, now, infoType>>

MakeReq(phase, now) ==
  [method |-> "GET",
   url |-> FormatApiUrl(PhaseFunc(phase), PhasePublic(phase),
                        PhaseInfoType(phase), now),
   body |-> "none"]

(* ------------------------- end of an operation ------------------------- *)
\* the operation of the task returns res (a value) or raises res (an
\* exception name); request records of the call are dropped with its frame
Finish(g, l, res) ==
  St(g, [l EXCEPT !.pc = "done", !.result = res, !.phase = "none",
                  !.ret = "top", !.req = NoReq, !.first = NoSent,
                  !.second = NoSent, !.reauthCookie = Absent,
                  !.wanIfs = FALSE, !.vcookie = Absent,
                  !.connClosed = FALSE, !.apiClosed = FALSE])

(* ------------------------------ connect -------------------------------- *)
\* connect() on a session whose _connected is False, up to the login POST:
\* fetch or create the transport, send the credentials, suspend
StartConnect(g, l, r) ==
  St(GetSession(g),
     [l EXCEPT !.pc = "login_req", !.ret = r, !.connClosed = FALSE,
               !.hs = "login", !.interfered = FALSE])

\* the cookie connect() holds after a login answer with stat = "ok":
\* the bauth cookie of the response replaces the cached one; the Set-Cookie
\* header is looked at only when the cached value is still empty
ExtractCookie(old, jar, hdr) ==
  LET afterJar == IF jar # Absent THEN jar ELSE old
  IN IF afterJar = NoCookie /\ hdr # Absent THEN hdr ELSE afterJar

\* the login answer carries a bauth cookie with a value, in its cookies or
\* in its Set-Cookie header
CookieSupplied(jar, hdr) == jar \in 1..MaxTok \/ hdr \in 1..MaxTok

\* variant: the session is flagged authenticated as soon as the login
\* answer is accepted, before the verification request
LoginAcceptedFlagged(g, jar, hdr) ==
  [g EXCEPT !.auth_cookie = ExtractCookie(g.auth_cookie, jar, hdr),
            !.connected = TRUE]

\* the session after a login answer with stat = "ok" has been processed
LoginAccepted(g, jar, hdr) ==
  [g EXCEPT !.auth_cookie = ExtractCookie(g.auth_cookie, jar, hdr)]

\* headers of the verification request: the cached cookie, when there is one
VerifyCookie(g) == IF g.auth_cookie # NoCookie THEN g.auth_cookie ELSE Absent

(* --------------------------- ensure_connected -------------------------- *)
\* variant: ensure_connected reconnects on every call
EnsureReconnectsAlways(c, force) == TRUE

\* ensure_connected starts a handshake when the session is not
\* authenticated or the caller forces it
EnsureReconnects(c, force) == ~c \/ force

\* the cached state ensure_connected resets before it calls connect()
EnsureReset(g) == [g EXCEPT !.connected = FALSE]

(* --------------------------- _api_request ------------------------------ *)
\* headers of a request: a Cookie header only when a cookie is cached
CookieHeader(g) == IF g.auth_cookie # NoCookie THEN g.auth_cookie ELSE Absent

\* _api_request from its entry to the first suspension
ApiRequestStart(g, l) ==
  IF ~g.connected
    THEN StartConnect(g, l, "api_pre")
    ELSE St(GetSession(g),
            [l EXCEPT !.pc = "req_wait", !.apiClosed = FALSE,
                      !.hs = "none", !.interfered = FALSE,
                      !.nreq = l.nreq + 1,
                      !.first = [req |-> l.req, cookie |-> CookieHeader(g)],
                      !.second = NoSent, !.reauthCookie = Absent])

\* variant: an authorization failure ends the call without a new handshake
ForceReauthGivesUp(g, l, path) ==
  Finish(g, [l EXCEPT !.expiry = path, !.apiEnd = "Exception"], "Exception")

\* ensure_connected(force_reconnect=True) called by _api_request after an
\* authorization failure ("http": status 401, "api": stat fail, code 401)
ForceReauth(g, l, path) ==
  StartConnect(EnsureReset(g),
               [l EXCEPT !.nreauth = l.nreauth + 1, !.expiry = path],
               IF path = "http" THEN "reauth_http" ELSE "reauth_api")

\* the request re-sent after a successful forced re-authentication
RetryRequest(l) == l.req

\* variant: the retry re-uses the headers built for the first attempt
RetryCookieStale(g, l) == l.first.cookie

\* the Cookie header of the re-sent request is rebuilt from the session
RetryCookie(g, l) == CookieHeader(g)

(* -------------------------- _make_api_request -------------------------- *)
\* _make_api_request up to its first suspension: ensure_connected(), then
\* format the URL and enter _api_request
MakeApiRequest(g, l0, phase, now) ==
  LET l == [l0 EXCEPT !.phase = phase, !.nreq = 0, !.nreauth = 0,
                      !.expiry = "none", !.firstErr = FALSE,
                      !.apiEnd = "none", !.retryUnauth = FALSE,
                      !.req = NoReq, !.first = NoSent, !.second = NoSent,
                      !.reauthCookie = Absent]
  IN IF EnsureReconnects(g.connected, FALSE)
       THEN StartConnect(EnsureReset(g), l, "mk")
       ELSE ApiRequestStart(g, [l EXCEPT !.req = MakeReq(phase, now)])

(* --------------------------- data accessors ---------------------------- *)
FirstPhase(a) ==
  CASE a = "get_wan_status" -> "wan"
    [] a = "get_clients" -> "client"
    [] a = "get_traffic_stats" -> "wan"
    [] a = "get_location" -> "location"
    [] OTHER -> "sysinfo"

\* what the accessor that issued the request of this phase makes of a
\* decoded body: a value ("data", "empty", "payload") or an exception
InnerResult(phase, body, secs) ==
  CASE phase = "wan" ->
         (CASE body \in {"ok_data", "flat"} -> "data"
            [] body = "resp_null" -> "AttributeError"
            [] OTHER -> "empty")
    [] phase = "client" ->
         (CASE body \in {"ok_data", "flat"} -> "data"
            [] body = "resp_null" -> "TypeError"
            [] OTHER -> "empty")
    [] phase = "sysinfo" ->
         IF body = "ok_data" /\ secs # {} THEN "data" ELSE "empty"
    [] phase = "location" ->
         IF body \in {"ok_data", "ok_empty"} THEN "payload" ELSE "empty"
    [] OTHER -> IF body = "ok_data" THEN "data" ELSE "empty"

\* the except clauses around the request of a phase
CatchesAll(phase) == phase \notin {"wan", "client"}

InnerCatch(phase, e) ==
  IF CatchesAll(phase) \/ e = "JSONDecodeError" THEN "empty" ELSE e

\* the accessors that look into the combined system information first
Combined == {"get_thermal_sensors", "get_fan_speeds", "get_device_info"}

\* the section of the combined result such an accessor returns
SectionOf(op) ==
  CASE op = "get_thermal_sensors" -> "thermal"
    [] op = "get_fan_speeds" -> "fan"
    [] OTHER -> "device"

\* variant: any combined result that was processed is taken
CombinedHasAny(r, sec, secs) == r = "data"

\* the combined result carries the data of the section (a non-empty sensor
\* list, fan list or device object)
CombinedHas(r, sec, secs) == r = "data" /\ sec \in secs

\* variant: an endpoint never yields an entry
TrafficYieldsNever(r) == FALSE

\* a traffic endpoint produced at least one interface entry
TrafficYields(r) == r = "data"

\* the outcome of a completed request as the accessor sees it
Outcome(phase, r, secs) ==
  [phase |-> phase, r |-> r, secs |-> IF phase = "sysinfo" THEN secs ELSE {}]

\* the accessor continues after the request of l0.phase produced r
PhaseResult(g, l0, r, secs, now) ==
  LET l == [l0 EXCEPT !.hist = Append(@, Outcome(l0.phase, r, secs))] IN
  CASE l.op \in Combined /\ l.phase = "sysinfo" ->
         IF CombinedHas(r, SectionOf(l.op), secs)
           THEN Finish(g, l, "data")
           ELSE MakeApiRequest(g, l, SectionOf(l.op), now)
    [] l.op = "get_traffic_stats" /\ l.phase = "wan" ->
         IF r \in Exceptions
           THEN Finish(g, l, "empty")
           ELSE MakeApiRequest(g, [l EXCEPT !.wanIfs = (r = "data")],
                               "traffic", now)
    [] l.op = "get_traffic_stats" /\ l.phase = "traffic" ->
         IF TrafficYields(r) THEN Finish(g, l, "data")
                             ELSE MakeApiRequest(g, l, "wanstats", now)
    [] l.op = "get_traffic_stats" /\ l.phase = "wanstats" ->
         IF TrafficYields(r) THEN Finish(g, l, "data")
         ELSE IF l.wanIfs THEN Finish(g, l, "placeholder")
         ELSE Finish(g, l, "empty")
    [] OTHER -> Finish(g, l, r)

\* _make_api_request / _api_request raised e inside the accessor
ApiRaise(g, l, e, now) ==
  PhaseResult(g, [l EXCEPT !.apiEnd = e], InnerCatch(l.phase, e), {}, now)

\* _api_request returned a decoded body
ApiReturn(g, l, body, secs, now) ==
  PhaseResult(g, [l EXCEPT !.apiEnd = "returned"],
              InnerResult(l.phase, body, secs), secs, now)

\* variant: an HTTP error marks the session disconnected
HttpErrorDisconnects(g, l, now) ==
  ApiRaise([g EXCEPT !.connected = FALSE], [l EXCEPT !.firstErr = TRUE],
           "Exception", now)

\* a response with a non-2xx status other than 401: raise_for_status()
\* raises, and _api_request turns the client error into its own error
HttpError(g, l, now) ==
  ApiRaise(g, [l EXCEPT !.firstErr = TRUE], "Exception", now)

\* variant: an authorization failure of the re-sent request starts
\* another forced re-authentication
RetryUnauthorizedAgain(g, l, now) ==
  ForceReauth(g, [l EXCEPT !.retryUnauth = TRUE], "http")

\* the re-sent request is answered with an authorization failure again
RetryUnauthorized(g, l, now) ==
  ApiRaise(g, [l EXCEPT !.retryUnauth = TRUE], "Exception", now)

(* ------------------------- return from connect ------------------------- *)
\* connect() returned ("True"/"False") or raised (an exception name);
\* control continues in the caller up to its next suspension
ConnectReturn(g, l0, end, outcome, now) ==
  LET l == [l0 EXCEPT !.hs = IF l0.ret = "top" THEN end ELSE "none",
                      !.vcookie = Absent] IN
  CASE l.ret = "top" -> Finish(g, l, outcome)
    [] l.ret = "mk" ->
         IF outcome = "True"
           THEN ApiRequestStart(g, [l EXCEPT !.req = MakeReq(l.phase, now)])
           ELSE ApiRaise(g, l, IF outcome = "False" THEN "Exception"
                                                    ELSE outcome, now)
    [] l.ret = "api_pre" ->
         IF outcome = "True"
           THEN ApiRequestStart(g, l)
           ELSE ApiRaise(g, l, IF outcome = "False" THEN "Exception"
                                                    ELSE outcome, now)
    [] OTHER ->
         IF outcome = "True"
           THEN IF l.apiClosed
                  THEN ApiRaise(g, [l EXCEPT !.nreq = l.nreq + 1,
                                             !.reauthCookie = g.auth_cookie],
                                "RuntimeError", now)
                  ELSE St(g, [l EXCEPT !.pc = "retry_wait",
                                       !.hs = "none", !.interfered = FALSE,
                                       !.nreq = l.nreq + 1,
                                       !.reauthCookie = g.auth_cookie,
                                       !.second = [req |-> RetryRequest(l),
                                                   cookie |-> RetryCookie(g, l)]])
           ELSE ApiRaise(g, l, IF outcome = "False" THEN "Exception"
                                                    ELSE outcome, now)

(* ------------------------------- state --------------------------------- *)
\* data is the response data an accessor works on (fn: the accessor, in:
\* the decoded answers of the router, out: the value the accessor returns)
\* the client after construction, with or without a supplied transport
InitSession ==
  /\ connected = FALSE
  /\ auth_cookie = NoCookie
  /\ session \in {"none", "ext"}
  /\ own_session = FALSE
  /\ task = [t \in Tasks |-> IdleLocal]

\* no response data is being processed
NoData == [fn |-> "none", stage |-> "idle", in |-> <<>>, out |-> <<>>]

\* no config entry of the integration is set up
NoHass == [stage |-> "off"]

Init == InitSession /\ data = NoData /\ hass = NoHass

Ready(t) == task[t].pc \in {"idle", "done"}

Commit(t, st) ==
  /\ connected' = st.g.connected
  /\ auth_cookie' = st.g.auth_cookie
  /\ session' = st.g.session
  /\ own_session' = st.g.own_session
  /\ task' = [task EXCEPT ![t] = st.l]
  /\ UNCHANGED <<data, hass>>

(* --------------------------- calls by a task --------------------------- *)
\* connect()
CallConnect(t) ==
  /\ Ready(t)
  /\ LET l == [IdleLocal EXCEPT !.op = "connect"]
     IN Commit(t, IF connected
                    THEN Finish(Globals, [l EXCEPT !.hs = "fast"], "True")
                    ELSE StartConnect(Globals, l, "top"))

\* ensure_connected(force_reconnect)
CallEnsureConnected(t, force) ==
  /\ Ready(t)
  /\ LET l == [IdleLocal EXCEPT !.op = "ensure_connected", !.force = force]
     IN Commit(t, IF EnsureReconnects(connected, force)
                    THEN StartConnect(EnsureReset(Globals), l, "top")
                    ELSE Finish(Globals, [l EXCEPT !.hs = "fast"], "True"))

\* one of the data accessors
CallAccessor(t, a, now) ==
  /\ Ready(t)
  /\ Commit(t, MakeApiRequest(Globals,
                              [IdleLocal EXCEPT !.op = a, !.normal = TRUE],
                              FirstPhase(a), now))

\* variant: close() releases whatever transport the client holds
CloseReleasesAny(g) == g.session # "none"

\* close() closes and forgets the transport only when the client created it
CloseReleases(g) == g.own_session /\ g.session # "none"

\* close(): when it releases the transport it also resets the ownership and
\* authenticated flags, otherwise it does nothing; requests that other
\* coroutines still hold on a released transport find it closed
CallClose(t) ==
  /\ Ready(t)
  /\ LET owned == CloseReleases(Globals)
         mark(u) ==
           IF u = t
             THEN [IdleLocal EXCEPT !.op = "close", !.pc = "done",
                                    !.result = "None"]
           ELSE IF ~owned THEN task[u]
           ELSE [task[u] EXCEPT
                   !.connClosed = @ \/ task[u].pc \in HandshakePcs,
                   !.apiClosed = @ \/ task[u].pc \in RequestPcs
                                   \/ (task[u].pc \in HandshakePcs
                                       /\ task[u].ret \in
                                            {"reauth_http", "reauth_api"})]
     IN /\ task' = [u \in Tasks |-> mark(u)]
        /\ session' = IF owned THEN "none" ELSE session
        /\ own_session' = IF owned THEN FALSE ELSE own_session
        /\ connected' = IF owned THEN FALSE ELSE connected
        /\ UNCHANGED <<auth_cookie, data, hass>>

(* ------------------------ the handshake, step by step ------------------ *)
LoginKinds == {"cert_err", "conn_err", "401", "http_err", "2xx"}

\* the login POST is answered (status line and headers) or fails
LoginResponse(t, kind, now) ==
  /\ task[t].pc = "login_req"
  /\ LET g == Globals
         l == [task[t] EXCEPT !.normal = @ /\ kind = "2xx"]
         off == [g EXCEPT !.connected = FALSE]
     IN Commit(t,
          CASE kind = "cert_err" ->
                 ConnectReturn(off, l, "login_cert", "PeplinkSSLError", now)
            [] kind = "conn_err" ->
                 ConnectReturn(off, l, "login_err", "False", now)
            [] kind = "401" ->
                 ConnectReturn(g, l, "login_401", "False", now)
            [] kind = "http_err" ->
                 ConnectReturn(off, l, "login_err", "False", now)
            [] OTHER -> St(g, [l EXCEPT !.pc = "login_body"]))

Cookies == 0..MaxTok \cup {Absent}

\* login bodies: jar is the bauth cookie of the response cookies, hdr the
\* bauth value of its Set-Cookie header (of interest when stat = "ok")
LoginBodies ==
  [kind : {"fail", "bad_json", "payload_err"}, jar : {Absent}, hdr : {Absent}]
    \cup [kind : {"ok"}, jar : Cookies, hdr : Cookies]

\* the body of the login answer is read
LoginBody(t, ans, now) ==
  /\ task[t].pc = "login_body"
  /\ LET kind == ans.kind
         jar == ans.jar
         hdr == ans.hdr
         g == Globals
         got == LoginAccepted(g, jar, hdr)
         l == [task[t] EXCEPT !.normal = @ /\ kind = "ok"
                                           /\ got.auth_cookie # NoCookie]
         off == [g EXCEPT !.connected = FALSE]
     IN Commit(t,
          CASE kind = "bad_json" ->
                 ConnectReturn(g, l, "login_badjson", "JSONDecodeError", now)
            [] kind = "payload_err" ->
                 ConnectReturn(off, l, "login_err", "False", now)
            [] kind = "fail" ->
                 ConnectReturn(g, l, "login_fail", "False", now)
            [] OTHER ->
                 IF got.auth_cookie = NoCookie
                   THEN ConnectReturn(got, l, "login_nocookie", "False", now)
                 ELSE IF l.connClosed
                   THEN ConnectReturn(got, l, "session_closed",
                                      "RuntimeError", now)
                 ELSE St(got, [l EXCEPT !.pc = "verify_req",
                                        !.hs = "verify",
                                        !.vcookie = VerifyCookie(got)]))

\* the verification GET is answered or fails
VerifyResponse(t, kind, now) ==
  /\ task[t].pc = "verify_req"
  /\ LET g == Globals
         l == [task[t] EXCEPT !.normal = @ /\ kind = "2xx"]
         off == [g EXCEPT !.connected = FALSE]
     IN Commit(t,
          CASE kind = "cert_err" ->
                 ConnectReturn(off, l, "verify_cert", "False", now)
            [] kind = "conn_err" ->
                 ConnectReturn(off, l, "verify_err", "False", now)
            [] kind = "401" ->
                 ConnectReturn(g, l, "verify_401", "False", now)
            [] kind = "http_err" ->
                 ConnectReturn(off, l, "verify_http", "False", now)
            [] OTHER -> St(g, [l EXCEPT !.pc = "verify_body"]))

VerifyBodyKinds == {"json_ok", "json_fail", "bad_json", "payload_err"}

\* the body of the verification answer is read; a decoded body of any
\* content (stat ok, or stat fail with an error code) completes the handshake
VerifyBody(t, kind, now) ==
  /\ task[t].pc = "verify_body"
  /\ LET g == Globals
         l == [task[t] EXCEPT !.normal = @ /\ kind \in {"json_ok",
                                                          "json_fail"}]
         st == CASE kind = "bad_json" ->
                      ConnectReturn(g, l, "verify_badjson",
                                    "JSONDecodeError", now)
                 [] kind = "payload_err" ->
                      ConnectReturn([g EXCEPT !.connected = FALSE], l,
                                    "verify_err", "False", now)
                 [] OTHER ->
                      ConnectReturn([g EXCEPT !.connected = TRUE], l,
                                    IF kind = "json_fail" THEN "ok_fail"
                                                          ELSE "ok",
                                    "True", now)
     IN /\ connected' = st.g.connected
        /\ auth_cookie' = st.g.auth_cookie
        /\ session' = st.g.session
        /\ own_session' = st.g.own_session
        /\ task' = [u \in Tasks |->
                      IF u = t THEN st.l
                      ELSE IF kind \in {"json_ok", "json_fail"}
                              /\ task[u].hs \in {"login", "verify", "cancelled"}
                        THEN [task[u] EXCEPT !.interfered = TRUE]
                        ELSE task[u]]
        /\ UNCHANGED <<data, hass>>

(* ----------------------------- a data request -------------------------- *)
DataBodies == {"ok_data", "ok_empty", "flat", "fail", "resp_null"}

BodyKinds == DataBodies \cup {"fail401", "bad_json", "payload_err", "not_dict"}

\* answers to a data request: a failed request, a status line, or a 2xx
\* answer with its body; secs are the sections a combined system-info
\* body carries
Answers(phase) ==
  [status : {"conn_err", "401", "http_err"}, body : {"none"}, secs : {{}}]
    \cup [status : {"2xx"}, body : BodyKinds \ {"ok_data"}, secs : {{}}]
    \cup [status : {"2xx"}, body : {"ok_data"},
          secs : IF phase = "sysinfo" THEN SUBSET Sections ELSE {Sections}]

\* what reading and checking a response body raises in _api_request
\* ("none": the decoded body is handed on)
BodyError(kind) ==
  CASE kind = "bad_json" -> "JSONDecodeError"
    [] kind = "payload_err" -> "Exception"
    [] kind = "not_dict" -> "AttributeError"
    [] OTHER -> "none"

\* the router answers a data request of the phase with the complete data
\* asked for, in a layout the accessor reads
NormalData(phase, ans) ==
  /\ ans.status = "2xx"
  /\ \/ ans.body = "ok_data" /\ ans.secs = Sections
     \/ ans.body = "flat" /\ phase \in {"wan", "client"}

\* the router tells that the session it is shown is not (or no longer) valid
Unauthorized(ans) ==
  ans.status = "401" \/ (ans.status = "2xx" /\ ans.body = "fail401")

\* the first request of a call is answered; the status line and the body
\* are consumed in one step (no session state is read or written between)
Response(t, ans, now) ==
  /\ task[t].pc = "req_wait"
  /\ LET g == Globals
         l == [task[t] EXCEPT !.normal = @ /\ (NormalData(task[t].phase, ans)
                                                 \/ Unauthorized(ans))]
     IN Commit(t,
          CASE ans.status = "401" -> ForceReauth(g, l, "http")
            [] ans.status = "http_err" -> HttpError(g, l, now)
            [] ans.status = "conn_err" -> ApiRaise(g, l, "Exception", now)
            [] OTHER ->
                 IF BodyError(ans.body) # "none"
                   THEN ApiRaise(g, l, BodyError(ans.body), now)
                 ELSE IF ans.body = "fail401"
                   THEN ForceReauth(g, l, "api")
                 ELSE ApiReturn(g, l, ans.body, ans.secs, now))

\* the re-sent request is answered
RetryResponse(t, ans, now) ==
  /\ task[t].pc = "retry_wait"
  /\ LET g == Globals
         l == [task[t] EXCEPT !.normal = @ /\ NormalData(task[t].phase, ans)]
     IN Commit(t,
          CASE ans.status = "401" -> RetryUnauthorized(g, l, now)
            [] ans.status \in {"http_err", "conn_err"} ->
                 ApiRaise(g, l, "Exception", now)
            [] OTHER ->
                 IF BodyError(ans.body) # "none"
                   THEN ApiRaise(g, l, BodyError(ans.body), now)
                 ELSE IF ans.body = "fail401"
                   THEN RetryUnauthorized(g, l, now)
                 ELSE ApiReturn(g, l, ans.body, ans.secs, now))

\* the caller abandons a pending call: CancelledError is raised at the
\* suspension point and no handler of the client catches it
Cancel(t) ==
  /\ task[t].pc \in HandshakePcs \cup RequestPcs
  /\ LET l == task[t]
     IN Commit(t, Finish(Globals,
                         [l EXCEPT !.hs = IF l.pc \in HandshakePcs
                                            THEN "cancelled" ELSE @,
                                   !.apiEnd = "CancelledError",
                                   !.normal = FALSE],
                         "CancelledError"))

(* --------------------------- specification ----------------------------- *)
\* readings of time.time() in milliseconds; only the accessors that
\* format a query-style URL read the time
Clock == 0..MaxClock

Stamps(op) ==
  IF op \in Accessors \ {"get_wan_status", "get_clients"} THEN Clock ELSE {0}

\* the steps of the coroutines T; coroutine t calls the accessors A[t]
Step(T, A) ==
  \/ \E t \in T : CallConnect(t)
  \/ \E t \in T, force \in BOOLEAN : CallEnsureConnected(t, force)
  \/ \E t \in T : \E a \in A[t] : \E now \in Stamps(a) : CallAccessor(t, a, now)
  \/ \E t \in T : CallClose(t)
  \/ \E t \in T, kind \in LoginKinds : \E now \in Stamps(task[t].op) :
       LoginResponse(t, kind, now)
  \/ \E t \in T, ans \in LoginBodies : \E now \in Stamps(task[t].op) :
       LoginBody(t, ans, now)
  \/ \E t \in T, kind \in LoginKinds : \E now \in Stamps(task[t].op) :
       VerifyResponse(t, kind, now)
  \/ \E t \in T, kind \in VerifyBodyKinds : \E now \in Stamps(task[t].op) :
       VerifyBody(t, kind, now)
  \/ \E t \in T : \E now \in Stamps(task[t].op), ans \in Answers(task[t].phase) :
       Response(t, ans, now)
  \/ \E t \in T : \E now \in Stamps(task[t].op), ans \in Answers(task[t].phase) :
       RetryResponse(t, ans, now)
  \/ \E t \in T : Cancel(t)

\* two coroutines share the client: each connects, reconnects, closes and
\* polls one accessor (get_wan_status and get_clients run concurrently)
ConcAccessors ==
  [t \in Tasks |-> IF t = "t1" THEN {"get_wan_status"} ELSE {"get_clients"}]

Next == Step(Tasks, ConcAccessors)

Spec == Init /\ [][Next]_vars

\* one coroutine at a time, all accessors
NextSeq == Step({"t1"}, [t \in Tasks |-> Accessors])

SpecSeq == Init /\ [][NextSeq]_vars

TypeOK ==
  /\ connected \in BOOLEAN
  /\ auth_cookie \in 0..MaxTok
  /\ session \in {"none", "ext", "own"}
  /\ own_session \in BOOLEAN

(* ---------------------------- response data ---------------------------- *)
\* A JSON object is a function from its keys to its values; a key that is
\* missing from the object is missing from the domain.  Keys that the code
\* inspects character by character are sequences of characters.
MaxConn == 2

Has(d, k) == k \in DOMAIN d

\* d.get(k, dflt)
Get(d, k, dflt) == IF k \in DOMAIN d THEN d[k] ELSE dflt

\* d[k] = v
Put(d, k, v) == [x \in DOMAIN d \cup {k} |-> IF x = k THEN v ELSE d[x]]

DigitChars == {"0", "1", "2", "3", "4", "5", "6", "7", "8", "9"}

\* str.isdigit(): non-empty and every character a digit
IsDigit(s) == Len(s) > 0 /\ \A i \in 1..Len(s) : s[i] \in DigitChars

S1 == <<"1">>
S2 == <<"2">>
Order == <<"o", "r", "d", "e", "r">>
Wan1 == <<"w", "a", "n", "1">>

\* the keys of a keyed response, in the order the router lists them
KeyOrder == <<S1, S2, Order>>

\* the keys of d in iteration order
ItemKeys(d) == SelectSeq(KeyOrder, LAMBDA k : k \in DOMAIN d)

\* sequences over S of length up to n
SeqUpTo(S, n) == UNION {[1..m -> S] : m \in 0..n}

\* keyed objects: an object under every digit key, a list under "order"
Keyed(Objs) ==
  UNION {{[k \in K |-> IF IsDigit(k) THEN g[k] ELSE <<1, 2>>] :
            g \in [{k \in K : IsDigit(k)} -> Objs]} :
         K \in SUBSET {S1, S2, Order}}

(* ---- get_wan_status ---- *)
Cable == <<"Cable">>

\* f"WAN {key}"
WanDefaultName(key) == <<"WAN ">> \o key

\* interface objects of a status.wan answer; name and status may be missing
WanObjs ==
  {[enable |-> TRUE],
   [enable |-> TRUE, name |-> Cable],
   [enable |-> TRUE, status |-> "connected"],
   [enable |-> TRUE, name |-> Cable, status |-> "connected"]}

\* elements of a flat connection list
FlatConns ==
  {[enable |-> TRUE],
   [enable |-> TRUE, id |-> S1],
   [enable |-> TRUE, id |-> S1, name |-> Cable, status |-> "connected"],
   [enable |-> TRUE, id |-> S2, name |-> Cable],
   [enable |-> TRUE, id |-> Wan1, name |-> Cable, status |-> "connected"]}

\* decoded answers of status.wan
WanBodies ==
  {[stat |-> "fail", code |-> 500], [stat |-> "ok"]}
    \cup {[stat |-> "ok", response |-> r] : r \in Keyed(WanObjs)}
    \cup {[connection |-> q] : q \in SeqUpTo(FlatConns, MaxConn)}

\* the interface object stored under a digit key, as get_wan_status
\* completes it
WanEntry(key, value) ==
  LET v1 == Put(value, "id", key)
      v2 == Put(v1, "name", Get(v1, "name", WanDefaultName(key)))
  IN Put(v2, "status", Get(v2, "status", "unknown"))

\* get_wan_status applied to a decoded answer
GetWanStatus(response) ==
  IF Has(response, "stat") /\ response.stat = "fail"
    THEN [connection |-> <<>>]
  ELSE IF Has(response, "stat") /\ response.stat = "ok"
            /\ Has(response, "response")
    THEN LET ks == SelectSeq(ItemKeys(response.response), IsDigit)
         IN [connection |->
               [i \in 1..Len(ks) |-> WanEntry(ks[i], response.response[ks[i]])]]
  ELSE IF Has(response, "connection") THEN response
  ELSE [connection |-> <<>>]

(* ---- get_clients ---- *)
ClientVal ==
  [ip |-> "10.0.0.2", mac |-> "aa:bb", name |-> "laptop", hostname |-> "host"]

\* client objects; mac, name and hostname may be missing
ClientObjs ==
  {[k \in F \cup {"ip"} |-> ClientVal[k]] :
     F \in SUBSET {"mac", "name", "hostname"}}

\* decoded answers of status.client
ClientBodies ==
  {[stat |-> "fail", code |-> 500], [stat |-> "ok"],
   [stat |-> "ok", response |-> [total |-> 0]]}
    \cup {[stat |-> "ok", response |-> [list |-> q]] :
            q \in SeqUpTo(ClientObjs, MaxConn)}
    \cup {[client |-> q] : q \in SeqUpTo(ClientObjs, MaxConn)}

\* a client of the nested list, as get_clients completes it
ClientEntry(client) ==
  LET c1 == Put(client, "connected", TRUE)
      c2 == Put(c1, "mac", Get(c1, "mac", "unknown"))
  IN Put(c2, "name", Get(c2, "name", Get(c2, "hostname", "Unknown Device")))

\* get_clients applied to a decoded answer
GetClients(response) ==
  IF Has(response, "stat") /\ response.stat = "fail"
    THEN [client |-> <<>>]
  ELSE IF Has(response, "stat") /\ response.stat = "ok"
            /\ Has(response, "response") /\ Has(response.response, "list")
    THEN [client |-> [i \in 1..Len(response.response.list) |->
                        ClientEntry(response.response.list[i])]]
  ELSE IF Has(response, "client") THEN response
  ELSE [client |-> <<>>]

(* ---- get_traffic_stats ---- *)
Dsl == <<"DSL">>

\* per-interface objects of a traffic answer: without counters, with raw
\* counters, with counters in MB and rates in kbps
TrafObjs ==
  {[seen |-> TRUE],
   [seen |-> TRUE, name |-> Dsl, rx |-> 10, tx |-> 20,
    rx_rate |-> 3, tx_rate |-> 4],
   [seen |-> TRUE, unit |-> "MB", download |-> 1, upload |-> 2,
    rate_unit |-> "kbps", rx_rate |-> 3, tx_rate |-> 4]}

\* per-interface objects of a status.wan.statistics answer
StatObjs ==
  {[seen |-> TRUE],
   [seen |-> TRUE, rx_bytes |-> 10, tx |-> 20, rx_rate |-> 3]}

\* an awaited call raised
Raised == [raised |-> TRUE]

\* an awaited call returned body
Returned(body) == [raised |-> FALSE, body |-> body]

\* what get_wan_status() yields inside get_traffic_stats
WanAnswers == {Raised} \cup {Returned(b) : b \in WanBodies}

\* what _make_api_request("status.traffic") yields
TrafficAnswers ==
  {Raised, Returned([stat |-> "fail", code |-> 404]), Returned([stat |-> "ok"])}
    \cup {Returned([stat |-> "ok", response |-> r]) : r \in Keyed(TrafObjs)}

\* what _make_api_request("status.wan.statistics") yields
StatisticsAnswers ==
  {Raised, Returned([stat |-> "fail", code |-> 404]), Returned([stat |-> "ok"])}
    \cup {Returned([stat |-> "ok", response |-> r]) : r \in Keyed(StatObjs)}

\* wan_interfaces: id -> name of the connections that have both, as the
\* list of its items (an id keeps the place of its first connection and
\* the name of its last)
WanInterfaces(conns) ==
  LET both == SelectSeq(conns, LAMBDA c : Has(c, "id") /\ Has(c, "name"))
      idx == [i \in 1..Len(both) |-> i]
      firsts == SelectSeq(idx, LAMBDA i :
                            \A j \in 1..(i - 1) : both[j].id # both[i].id)
      last(id) == CHOOSE i \in 1..Len(both) :
                    /\ both[i].id = id
                    /\ \A j \in (i + 1)..Len(both) : both[j].id # id
  IN [n \in 1..Len(firsts) |->
        [id |-> both[firsts[n]].id, name |-> both[last(both[firsts[n]].id)].name]]

\* wan_interfaces.get(id, dflt)
InterfaceName(wi, id, dflt) ==
  IF \E n \in 1..Len(wi) : wi[n].id = id
    THEN wi[CHOOSE n \in 1..Len(wi) : wi[n].id = id].name
    ELSE dflt

\* the entry built from an interface object of status.traffic
StatsEntry(wan_id, wan_data, wi) ==
  [wan_id |-> wan_id,
   name |-> Get(wan_data, "name",
                InterfaceName(wi, wan_id, WanDefaultName(wan_id))),
   rx_bytes |-> Get(wan_data, "rx", 0),
   tx_bytes |-> Get(wan_data, "tx", 0),
   rx_rate |-> Get(wan_data, "rx_rate", 0),
   tx_rate |-> Get(wan_data, "tx_rate", 0),
   unit |-> "bytes"]

\* the entry built from an interface object of status.wan.statistics
StatisticsEntry(wan_id, wan_data, wi) ==
  [wan_id |-> wan_id,
   name |-> InterfaceName(wi, wan_id, WanDefaultName(wan_id)),
   rx_bytes |-> Get(wan_data, "rx_bytes", Get(wan_data, "rx", 0)),
   tx_bytes |-> Get(wan_data, "tx_bytes", Get(wan_data, "tx", 0)),
   rx_rate |-> Get(wan_data, "rx_rate", 0),
   tx_rate |-> Get(wan_data, "tx_rate", 0),
   unit |-> "bytes"]

\* the zero-valued entry of an interface known from the WAN status
PlaceholderEntry(wan_id, wan_name) ==
  [wan_id |-> wan_id, name |-> wan_name, rx_bytes |-> 0, tx_bytes |-> 0,
   rx_rate |-> 0, tx_rate |-> 0, unit |-> "bytes"]

\* wan_stats of one endpoint: entries for the digit keys of an ok answer;
\* an exception of the request is swallowed
EndpointStats(ans, endpoint, wi) ==
  IF ans.raised THEN <<>>
  ELSE IF Get(ans.body, "stat", "none") = "ok" /\ Has(ans.body, "response")
    THEN LET stats_data == ans.body.response
             ks == SelectSeq(ItemKeys(stats_data), IsDigit)
         IN [i \in 1..Len(ks) |->
               IF endpoint = "status.traffic"
                 THEN StatsEntry(ks[i], stats_data[ks[i]], wi)
                 ELSE StatisticsEntry(ks[i], stats_data[ks[i]], wi)]
  ELSE <<>>

\* get_traffic_stats, given what its three awaited calls yield: the first
\* endpoint with entries wins, else placeholders for the known interfaces
GetTrafficStats(wan, traffic, statistics) ==
  IF wan.raised THEN [stats |-> <<>>]
  ELSE
    LET wan_status == GetWanStatus(wan.body)
        wi == IF Has(wan_status, "connection")
                THEN WanInterfaces(wan_status.connection) ELSE <<>>
        fromTraffic == EndpointStats(traffic, "status.traffic", wi)
        fromStatistics == EndpointStats(statistics, "status.wan.statistics", wi)
    IN IF fromTraffic # <<>> THEN [stats |-> fromTraffic]
       ELSE IF fromStatistics # <<>> THEN [stats |-> fromStatistics]
       ELSE IF wi # <<>>
         THEN [stats |-> [n \in 1..Len(wi) |->
                            PlaceholderEntry(wi[n].id, wi[n].name)]]
       ELSE [stats |-> <<>>]

(* ---- the accessors applied to response data ---- *)
DataInputs ==
  [fn : {"get_wan_status"}, stage : {"input"}, in : WanBodies, out : {<<>>}]
    \cup [fn : {"get_clients"}, stage : {"input"}, in : ClientBodies,
          out : {<<>>}]
    \cup [fn : {"get_traffic_stats"}, stage : {"input"},
          in : [wan : WanAnswers, traffic : TrafficAnswers,
                statistics : StatisticsAnswers],
          out : {<<>>}]

InitData ==
  InitSession /\ session = "ext" /\ data \in DataInputs /\ hass = NoHass

Apply(fn, out) ==
  /\ data.fn = fn
  /\ data.stage = "input"
  /\ data' = [data EXCEPT !.stage = "output", !.out = out]
  /\ UNCHANGED <<connected, auth_cookie, session, own_session, task, hass>>

ApplyGetWanStatus == Apply("get_wan_status", GetWanStatus(data.in))

ApplyGetClients == Apply("get_clients", GetClients(data.in))

ApplyGetTrafficStats ==
  Apply("get_traffic_stats",
        GetTrafficStats(data.in.wan, data.in.traffic, data.in.statistics))

NextData == ApplyGetWanStatus \/ ApplyGetClients \/ ApplyGetTrafficStats

SpecData == InitData /\ [][NextData]_vars

(* ---------------------- coordinator and entities ----------------------- *)
\* largest reading the router reports for a figure
MaxReading == 2

Readings == 1..MaxReading

\* what the router has to report: thermal sensor, fan, traffic counters,
\* device information, a WAN connection, a GPS fix
Items == {"thermal", "fan", "traffic", "device", "wan", "gps"}

\* the router while a poll runs: the reading behind every figure and the
\* items it reports
RouterStates == [v : Readings, items : SUBSET Items]

\* None, and the value of .get() on a missing key
NoneValue == 0

EmptyDict == <<>>

\* truth value of a dict or list: not empty
Truthy(d) == DOMAIN d # {}

\* the values the accessors return for a router state
WanStatus(r) ==
  [connection |-> IF "wan" \in r.items
                    THEN <<[id |-> "1", name |-> "WAN 1", message |-> r.v]>>
                    ELSE <<>>]

Clients(r) == [client |-> <<>>]

ThermalSensors(r) ==
  [sensors |-> IF "thermal" \in r.items
                 THEN <<[name |-> "System", temperature |-> r.v,
                         unit |-> "C"]>>
                 ELSE <<>>]

\* a fan entry carries name, speed and unit, and no id
FanSpeeds(r) ==
  [fans |-> IF "fan" \in r.items
              THEN <<[name |-> "Fan 1", speed |-> r.v, unit |-> "RPM"]>>
              ELSE <<>>]

TrafficStats(r) ==
  [stats |-> IF "traffic" \in r.items
               THEN <<[wan_id |-> "1", name |-> "WAN 1",
                       rx_rate |-> r.v * 1000000,
                       tx_rate |-> r.v * 2000000, unit |-> "bytes"]>>
               ELSE <<>>]

DeviceInfo(r) ==
  [device_info |-> IF "device" \in r.items THEN [name |-> r.v]
                                           ELSE EmptyDict]

\* what get_location returns for a router state
Location(r) ==
  IF "gps" \in r.items
    THEN [gps |-> TRUE,
          location |-> [latitude |-> r.v, longitude |-> r.v + 1]]
    ELSE [gps |-> FALSE, location |-> EmptyDict]

\* the accessors a poll gathers, by the key of their result
Gathered == {"wan_status", "clients", "thermal_sensors", "fan_speeds",
             "traffic_stats", "device_info"}

\* the results the gathered accessors deliver for a router state
Results(r) ==
  [wan_status |-> WanStatus(r), clients |-> Clients(r),
   thermal_sensors |-> ThermalSensors(r), fan_speeds |-> FanSpeeds(r),
   traffic_stats |-> TrafficStats(r), device_info |-> DeviceInfo(r)]

\* what ensure_connected() delivers to the poll: a value or an exception
EnsureOutcomes == {"True", "False", "PeplinkSSLError", "JSONDecodeError"}

\* exceptions the gathered accessors deliver ("none": a value); only
\* get_wan_status and get_clients let an exception through
GatherErrors ==
  [wan_status : {"none", "Exception"},
   clients : {"none", "TypeError"},
   thermal_sensors : {"none"}, fan_speeds : {"none"},
   traffic_stats : {"none"}, device_info : {"none"}]

NoErrors == [k \in Gathered |-> "none"]

\* variant: an exception inside the poll leaves it as it is
UpdateRaisePropagates(e) == e

\* the handler around the poll turns every exception into UpdateFailed
UpdateRaise(e) == "UpdateFailed"

\* _async_update_data after ensure_connected() returned True: the outcome
\* ("dict" or an exception) for the gathered results and errors
GatherOutcome(res, errs) ==
  IF \E k \in Gathered : errs[k] # "none"
    THEN UpdateRaise("UpdateFailed")
  ELSE IF \E k \in Gathered : ~Truthy(res[k])
    THEN UpdateRaise("UpdateFailed")
  ELSE "dict"

\* the dict a poll returns
UpdateData(res) ==
  [wan_status |-> res.wan_status, clients |-> res.clients,
   thermal_sensors |-> res.thermal_sensors, fan_speeds |-> res.fan_speeds,
   traffic_stats |-> res.traffic_stats, device_info |-> res.device_info]

(* sensors *)
\* entity keys are sequences of the words that "_" separates
StartsWith(key, prefix) ==
  Len(key) >= Len(prefix) /\ SubSeq(key, 1, Len(prefix)) = prefix

\* round(x / 1_000_000, 2), in hundredths
Mbps(x) == ((x \div 5000) + 1) \div 2

\* description.value_fn
ValueFn(key, x) ==
  CASE key = <<"system", "temperature">> -> Get(x, "temperature", NoneValue)
    [] key = <<"fan", "1", "speed">> -> Get(x, "speed", NoneValue)
    [] key \in {<<"system", "download", "rate">>, <<"download", "rate">>} ->
         IF Has(x, "rx_rate") THEN Mbps(x.rx_rate) ELSE NoneValue
    [] key \in {<<"system", "upload", "rate">>, <<"upload", "rate">>} ->
         IF Has(x, "tx_rate") THEN Mbps(x.tx_rate) ELSE NoneValue
    [] key = <<"device", "name">> -> Get(x, "name", NoneValue)
    [] OTHER -> Get(x, "message", NoneValue)

\* PeplinkSensor.__init__: where the entity looks in the coordinator data
SensorDataKey(key) ==
  IF StartsWith(key, <<"system", "temperature">>) THEN "thermal_sensors"
  ELSE IF StartsWith(key, <<"fan">>) THEN "fan_speeds"
  ELSE IF StartsWith(key, <<"device">>) THEN "device_info"
  ELSE "None"

SensorDataId(key) ==
  IF StartsWith(key, <<"system", "temperature">>) THEN "System"
  ELSE IF StartsWith(key, <<"fan">>) THEN key[2]
  ELSE "None"

NoEntity == [exists |-> FALSE, key |-> <<>>, snap |-> EmptyDict]

Entity(key, sensor_data) ==
  [exists |-> TRUE, key |-> key, snap |-> sensor_data]

RECURSIVE SumRate(_, _)
\* sum of wan.get(field, 0) over the traffic entries
SumRate(stats, field) ==
  IF stats = <<>> THEN 0
  ELSE Get(Head(stats), field, 0) + SumRate(Tail(stats), field)

\* the totals the system bandwidth sensors are created with
SystemTraffic(stats) ==
  [rx_rate |-> SumRate(stats, "rx_rate"), tx_rate |-> SumRate(stats, "tx_rate")]

\* positions of the entries of a list that pass a test
Matching(list, Test(_)) == {i \in 1..Len(list) : Test(list[i])}

First(S) == CHOOSE i \in S : \A j \in S : i <= j

SensorNames == {"system_temperature", "fan_1_speed", "system_download_rate",
                "system_upload_rate", "device_name", "wan1_download_rate",
                "wan1_message"}

WanSensorNames == {"wan1_download_rate", "wan1_message"}

\* sensor async_setup_entry: the entities created from the coordinator data
SensorEntities(d) ==
  LET sensors == d.thermal_sensors.sensors
      stats == d.traffic_stats.stats
      info == d.device_info.device_info
      fans == d.fan_speeds.fans
      conns == Matching(d.wan_status.connection,
                        LAMBDA c : Get(c, "id", "") = "1")
  IN [system_temperature |->
        IF Truthy(sensors)
          THEN Entity(<<"system", "temperature">>, sensors[1]) ELSE NoEntity,
      system_download_rate |->
        IF Truthy(stats)
          THEN Entity(<<"system", "download", "rate">>, SystemTraffic(stats))
          ELSE NoEntity,
      system_upload_rate |->
        IF Truthy(stats)
          THEN Entity(<<"system", "upload", "rate">>, SystemTraffic(stats))
          ELSE NoEntity,
      device_name |->
        IF Truthy(info) THEN Entity(<<"device", "name">>, info) ELSE NoEntity,
      fan_1_speed |->
        IF Truthy(fans) THEN Entity(<<"fan", "1", "speed">>, fans[1])
                        ELSE NoEntity,
      wan1_download_rate |->
        IF Truthy(stats) THEN Entity(<<"download", "rate">>, stats[1])
                         ELSE NoEntity,
      wan1_message |->
        IF Truthy(stats) /\ conns # {}
          THEN Entity(<<"message">>, d.wan_status.connection[First(conns)])
          ELSE NoEntity]

\* PeplinkSensor.native_value
SensorNativeValue(e, d) ==
  LET dk == SensorDataKey(e.key)
      id == SensorDataId(e.key)
      sensors == Matching(d.thermal_sensors.sensors,
                          LAMBDA x : Get(x, "name", NoneValue) = id)
      fans == Matching(d.fan_speeds.fans, LAMBDA x : Get(x, "id", "") = id)
      fallback == ValueFn(e.key, e.snap)
  IN IF Truthy(d) /\ dk # "None"
       THEN CASE dk = "thermal_sensors" ->
                   IF sensors # {}
                     THEN ValueFn(e.key, d.thermal_sensors.sensors[First(sensors)])
                     ELSE fallback
              [] dk = "fan_speeds" ->
                   IF fans # {}
                     THEN ValueFn(e.key, d.fan_speeds.fans[First(fans)])
                     ELSE fallback
              [] OTHER ->
                   IF Truthy(d.device_info.device_info)
                     THEN ValueFn(e.key, d.device_info.device_info)
                     ELSE fallback
       ELSE fallback

\* PeplinkWANSensor.native_value of an entity of WAN 1
WanNativeValue(e, d) ==
  LET stats == Matching(d.traffic_stats.stats,
                        LAMBDA x : Get(x, "wan_id", "") = "1")
      conns == Matching(d.wan_status.connection,
                        LAMBDA x : Get(x, "id", "") = "1")
      fallback == ValueFn(e.key, e.snap)
  IN IF ~Truthy(d) THEN fallback
     ELSE IF e.key \in {<<"download", "rate">>, <<"upload", "rate">>}
       THEN IF stats # {}
              THEN ValueFn(e.key, d.traffic_stats.stats[First(stats)])
              ELSE fallback
     ELSE IF conns # {}
       THEN ValueFn(e.key, d.wan_status.connection[First(conns)])
       ELSE fallback

NativeValue(name, e, d) ==
  IF name \in WanSensorNames THEN WanNativeValue(e, d)
                             ELSE SensorNativeValue(e, d)

(* device tracker *)
NoTracker == [exists |-> FALSE, latitude |-> NoneValue, longitude |-> NoneValue]

\* device_tracker async_setup_entry: is a GPS tracker created
CreatesGpsTracker(d) ==
  LET location_info == Get(d, "location_info", EmptyDict)
      has_gps == Get(location_info, "gps", FALSE)
      location_data == Get(location_info, "location", EmptyDict)
  IN has_gps /\ Truthy(location_data)
       /\ Has(location_data, "latitude") /\ Has(location_data, "longitude")

\* PeplinkGPSTracker._update_gps_data
UpdateGpsData(gps, d) ==
  IF Truthy(d) /\ Has(d, "location_info") /\ Has(d.location_info, "location")
    THEN [gps EXCEPT
            !.latitude = Get(d.location_info.location, "latitude", NoneValue),
            !.longitude = Get(d.location_info.location, "longitude", NoneValue)]
    ELSE [gps EXCEPT !.latitude = NoneValue, !.longitude = NoneValue]

(* the config entry *)
\* the entry after async_setup_entry has created the coordinator
InitHass ==
  [stage |-> "idle", data |-> EmptyDict, router |-> [v |-> 1, items |-> {}],
   outcome |-> "none", ensure |-> "none", called |-> FALSE,
   errs |-> NoErrors, sensors_setup |-> FALSE,
   sensors |-> [n \in SensorNames |-> NoEntity],
   tracker_setup |-> FALSE, gps |-> NoTracker]

InitHA == InitSession /\ session = "ext" /\ data = NoData /\ hass = InitHass

Session == <<connected, auth_cookie, session, own_session, task, data>>

\* a poll starts: _async_update_data up to the answer of ensure_connected()
UpdateEnsure(e) ==
  /\ hass.stage = "idle"
  /\ hass' = IF e = "True"
               THEN [hass EXCEPT !.stage = "gather", !.outcome = "none",
                                 !.ensure = e, !.called = FALSE,
                                 !.errs = NoErrors]
               ELSE [hass EXCEPT !.outcome =
                                   UpdateRaise(IF e = "False"
                                                 THEN "UpdateFailed" ELSE e),
                                 !.ensure = e, !.called = FALSE,
                                 !.errs = NoErrors]
  /\ UNCHANGED Session

\* the gathered accessors have finished against router state r; a returned
\* dict becomes the coordinator data and the listeners are told
UpdateGather(r, errs) ==
  /\ hass.stage = "gather"
  /\ LET res == Results(r)
         out == GatherOutcome(res, errs)
         new == UpdateData(res)
     IN hass' = IF out = "dict"
                  THEN [hass EXCEPT !.stage = "idle", !.called = TRUE,
                                    !.errs = errs, !.outcome = out,
                                    !.data = new, !.router = r,
                                    !.gps = IF hass.gps.exists
                                              THEN UpdateGpsData(hass.gps, new)
                                              ELSE hass.gps]
                  ELSE [hass EXCEPT !.stage = "idle", !.called = TRUE,
                                    !.errs = errs, !.outcome = out]
  /\ UNCHANGED Session

\* the sensor platform is set up after a successful refresh
SensorSetup ==
  /\ hass.stage = "idle" /\ hass.outcome = "dict" /\ ~hass.sensors_setup
  /\ hass' = [hass EXCEPT !.sensors_setup = TRUE,
                          !.sensors = SensorEntities(hass.data)]
  /\ UNCHANGED Session

\* the device tracker platform is set up after a successful refresh
TrackerSetup ==
  /\ hass.stage = "idle" /\ hass.outcome = "dict" /\ ~hass.tracker_setup
  /\ hass' = [hass EXCEPT
                !.tracker_setup = TRUE,
                !.gps = IF CreatesGpsTracker(hass.data)
                          THEN UpdateGpsData([NoTracker EXCEPT !.exists = TRUE],
                                             hass.data)
                          ELSE NoTracker]
  /\ UNCHANGED Session

NextHA ==
  \/ \E e \in EnsureOutcomes : UpdateEnsure(e)
  \/ \E r \in RouterStates, errs \in GatherErrors : UpdateGather(r, errs)
  \/ SensorSetup
  \/ TrackerSetup

SpecHA == InitHA /\ [][NextHA]_vars

(* ------------------------- setup of the integration -------------------- *)
\* validate_input, given what connect() on the new client yields: it
\* returns the entry info, or raises (get_device_info raises no Exception)
ValidateInput(connect_result) ==
  CASE connect_result = "True" -> "info"
    [] connect_result = "False" -> "PeplinkAuthFailed"
    [] OTHER -> connect_result

\* async_step_user: the error shown in the form, or the created entry
AsyncStepUser(connect_result) ==
  LET v == ValidateInput(connect_result) IN
    CASE v = "info" -> "create_entry"
      [] v = "PeplinkAuthFailed" -> "invalid_auth"
      [] v = "PeplinkSSLError" -> "ssl_error"
      [] v \in Exceptions -> "unknown"
      [] OTHER -> v

\* the except clauses of async_setup_entry: what an exception raised
\* inside its try block becomes
SetupRaises(e) ==
  IF e = "PeplinkAuthFailed" THEN "ConfigEntryAuthFailed"
  ELSE IF e \in Exceptions \cup {"ConfigEntryAuthFailed"}
    THEN "ConfigEntryNotReady"
  ELSE e

\* async_setup_entry, given what api.connect() yields: True when the setup
\* goes on, else the exception it ends with
AsyncSetupEntry(connect_result) ==
  CASE connect_result = "True" -> "True"
    [] connect_result = "False" -> SetupRaises("ConfigEntryAuthFailed")
    [] OTHER -> SetupRaises(connect_result)

(* ============================ properties =============================== *)
\* the handshake of l was started by ensure_connected
ViaEnsure(l) ==
  l.op = "ensure_connected" \/ l.ret \in {"mk", "reauth_http", "reauth_api"}

\* C1: a data call that meets an authorization failure (status 401, or
\* stat fail with code 401) makes exactly one forced re-authentication and
\* at most one re-send; when the re-sent request is unauthorized again the
\* call ends with an error after two requests and one re-authentication.
C1_RetryOnce ==
  \A t \in Tasks :
    LET l == task[t] IN
      /\ l.nreq <= 2
      /\ l.nreauth <= 1
      /\ (l.expiry # "none" <=> l.nreauth = 1)
      /\ (l.nreq = 2 => l.nreauth = 1)
      /\ (l.pc = "retry_wait" => l.nreq = 2 /\ l.nreauth = 1)
      /\ (l.retryUnauth =>
            /\ l.pc = "done"
            /\ l.apiEnd = "Exception"
            /\ l.nreq = 2
            /\ l.nreauth = 1)

\* a call whose re-sent request was answered with an authorization failure
C1_Witness ==
  \E t \in Tasks :
    task[t].retryUnauth /\ task[t].nreq = 2 /\ task[t].expiry = "api"

C3_SingleHandshake ==
  Cardinality({t \in Tasks : task[t].pc \in HandshakePcs}) <= 1

\* C4: an accessor never raises; on every failure it returns a value.
C4_AccessorsNeverRaise ==
  \A t \in Tasks :
    (task[t].op \in Accessors /\ task[t].pc = "done")
      => task[t].result \notin Exceptions

\* C5: a first answer with a non-2xx status other than 401 ends the call
\* with an error after one request, without re-authentication, and leaves
\* the authenticated flag and the cached cookie as they were.
C5_HttpErrorTerminal ==
  [][\A t \in Tasks :
       (task[t].pc = "req_wait" /\ task'[t].firstErr) =>
         /\ task'[t].pc = "done"
         /\ task'[t].apiEnd = "Exception"
         /\ task'[t].nreq = 1
         /\ task'[t].nreauth = 0
         /\ connected' = connected
         /\ auth_cookie' = auth_cookie]_vars

\* a call ended by an HTTP error on an authenticated session
C5_Witness ==
  \E t \in Tasks :
    task[t].firstErr /\ task[t].pc = "done" /\ connected
      /\ auth_cookie # NoCookie

\* C6: a connect() whose login request is rejected returns False, and
\* afterwards the session is Disconnected and holds no auth cookie.
C6_RejectedLoginClean ==
  \A t \in Tasks :
    LET l == task[t] IN
      (l.pc = "done" /\ l.op \in {"connect", "ensure_connected"}
         /\ l.hs \in {"login_401", "login_fail"})
        => (l.result = "False" /\ ~connected /\ auth_cookie = NoCookie)

\* C7: a certificate-validation failure at the login request or at the
\* verification request makes connect() raise PeplinkSSLError and leaves
\* the session Disconnected.
C7_CertErrorDistinct ==
  \A t \in Tasks :
    LET l == task[t] IN
      (l.pc = "done" /\ l.op \in {"connect", "ensure_connected"}
         /\ l.hs \in {"login_cert", "verify_cert"})
        => (l.result = "PeplinkSSLError" /\ ~connected)

\* C8: after an authentication attempt was cancelled at one of its
\* suspension points, and as long as no other handshake has completed
\* since it started, the session is Disconnected.
C8_CancelLeavesDisconnected ==
  \A t \in Tasks :
    (task[t].hs = "cancelled" /\ ~task[t].interfered) => ~connected

\* a handshake cancelled after its login was accepted
C8_Witness ==
  \E t \in Tasks :
    /\ task[t].hs = "cancelled"
    /\ ~task[t].interfered
    /\ task[t].op \in {"connect", "ensure_connected"}
    /\ auth_cookie # NoCookie

\* C9: a handshake started by ensure_connected runs, and fails, with no
\* cookie of an earlier handshake held by the session.
C9_EnsureClearsCookie ==
  \A t \in Tasks :
    LET l == task[t] IN
      /\ (l.pc = "login_req" /\ ViaEnsure(l)) => auth_cookie = NoCookie
      /\ (l.pc = "done" /\ l.op = "ensure_connected" /\ l.result = "False")
           => auth_cookie = NoCookie

\* C10: on an Authenticated session connect() and ensure_connected(False)
\* return True at once, send nothing and change no session state.
C10_AuthenticatedNoOp ==
  [][\A t \in Tasks :
       (connected /\ (CallConnect(t) \/ CallEnsureConnected(t, FALSE))) =>
         /\ task'[t].pc = "done"
         /\ task'[t].result = "True"
         /\ task'[t].nreq = 0
         /\ UNCHANGED <<connected, auth_cookie, session, own_session>>]_vars

\* both calls have returned on an Authenticated session
C10_Witness ==
  /\ connected
  /\ \E t, u \in Tasks :
       /\ task[t].op = "connect" /\ task[t].hs = "fast"
       /\ task[u].op = "ensure_connected" /\ task[u].hs = "fast"

\* C11: the verification request of the handshake counts as success for
\* every answer whose HTTP status is not 401 (an application-level error, a
\* server error status, a body that is not JSON): connect() returns True
\* and the session is Authenticated.
C11_VerifyNon401Succeeds ==
  \A t \in Tasks :
    LET l == task[t] IN
      (l.pc = "done" /\ l.op \in {"connect", "ensure_connected"}
         /\ l.hs \in {"ok", "ok_fail", "verify_http", "verify_badjson"})
        => (l.result = "True" /\ connected)

\* task t sends a data request (first attempt or re-send) in this step
SendsData(t) ==
  /\ task'[t].pc \in RequestPcs
  /\ task[t].pc # task'[t].pc \/ task[t].phase # task'[t].phase

\* C12: every data request (first attempt and re-send) and every
\* verification request carries a Cookie header with the cookie the session
\* holds when it is sent, and a data request is sent only while the session
\* is Authenticated and holds a cookie.
C12_CookieOnEveryRequest ==
  [][\A t \in Tasks :
       /\ SendsData(t) =>
            /\ connected'
            /\ auth_cookie' \in 1..MaxTok
            /\ (IF task'[t].pc = "req_wait" THEN task'[t].first.cookie
                                            ELSE task'[t].second.cookie)
                 = auth_cookie'
       /\ (task[t].pc # "verify_req" /\ task'[t].pc = "verify_req") =>
            /\ auth_cookie' \in 1..MaxTok
            /\ task'[t].vcookie = auth_cookie']_vars

\* C13: close() never raises and leaves the session Disconnected, whether
\* or not a connect preceded it, on a repeated call, and both for a
\* transport the client created and for one the caller supplied.
C13_CloseDisconnects ==
  \A t \in Tasks :
    (task[t].op = "close" /\ task[t].pc = "done")
      => (task[t].result = "None" /\ ~connected)

\* C14: a transport supplied by the caller is never closed, dropped or
\* replaced and never counted as owned; a transport the client created is
\* closed by close() and no longer referenced afterwards; the client lets
\* go of a transport only through close() of a transport it owns.
C14_TransportOwnership ==
  [][/\ session = "ext" => (session' = "ext" /\ ~own_session')
     /\ \A t \in Tasks :
          (CallClose(t) /\ session = "own")
            => (session' = "none" /\ ~own_session')
     /\ (session # "none" /\ session' # session)
          => (own_session /\ \E t \in Tasks : CallClose(t))]_vars

\* close() has released a transport the client created for a handshake,
\* and another coroutine has since closed a client again
C14_Witness ==
  /\ session = "none"
  /\ auth_cookie # NoCookie
  /\ \A t \in Tasks : task[t].op = "close"

\* get_traffic_stats has returned for a WAN status that was obtained
TrafficDone ==
  data.fn = "get_traffic_stats" /\ data.stage = "output" /\ ~data.in.wan.raised

\* the ids of the interfaces get_wan_status reported to get_traffic_stats
\* (connections that carry an id and a name)
ReportedIds ==
  LET conns == GetWanStatus(data.in.wan.body).connection
  IN {conns[i].id : i \in {j \in 1..Len(conns) :
                              Has(conns[j], "id") /\ Has(conns[j], "name")}}

\* C15: within one get_traffic_stats call every interface id reported by
\* get_wan_status has an entry in the returned stats, also when the traffic
\* endpoint returned entries for other interfaces only.
C15_EveryInterfaceHasEntry ==
  TrafficDone =>
    \A id \in ReportedIds :
      \E n \in 1..Len(data.out.stats) : data.out.stats[n].wan_id = id

\* C16: get_traffic_stats converts units: byte counters reported in MB are
\* multiplied by 1048576 (download 1, upload 2 give rx_bytes 1048576 and
\* tx_bytes 2097152) and rates reported in kbps are multiplied by 1024.
C16_UnitConversion ==
  (TrafficDone /\ ~data.in.traffic.raised
     /\ Get(data.in.traffic.body, "stat", "none") = "ok"
     /\ Has(data.in.traffic.body, "response")) =>
    \A k \in {x \in DOMAIN data.in.traffic.body.response : IsDigit(x)} :
      LET o == data.in.traffic.body.response[k] IN
        \E n \in 1..Len(data.out.stats) :
          LET e == data.out.stats[n] IN
            /\ e.wan_id = k
            /\ Get(o, "unit", "none") = "MB" =>
                 /\ e.rx_bytes = o.download * 1048576
                 /\ e.tx_bytes = o.upload * 1048576
            /\ Get(o, "rate_unit", "none") = "kbps" =>
                 /\ e.rx_rate = o.rx_rate * 1024
                 /\ e.tx_rate = o.tx_rate * 1024

\* the answer of the router is a success envelope
Success(body) == ~(Has(body, "stat") /\ body.stat = "fail")

\* C17: for a success answer in either shape (interfaces under digit keys
\* of response, or a flat connection list) every element get_wan_status
\* returns has id, name and status; a missing name is "WAN <id>" and a
\* missing status is "unknown".
C17_WanElementsComplete ==
  (data.fn = "get_wan_status" /\ data.stage = "output" /\ Success(data.in)) =>
    \A i \in 1..Len(data.out.connection) :
      LET e == data.out.connection[i]
          src == IF Has(data.in, "connection")
                   THEN data.in.connection[i]
                   ELSE data.in.response[e.id]
      IN /\ {"id", "name", "status"} \subseteq DOMAIN e
         /\ e.name = Get(src, "name", WanDefaultName(e.id))
         /\ e.status = Get(src, "status", "unknown")

\* C18: every entry get_traffic_stats returns is a complete interface entry
\* whose wan_id consists of digits only, whichever of the three paths
\* produced it; keys such as "order" never produce an entry.
C18_OnlyDigitIds ==
  (data.fn = "get_traffic_stats" /\ data.stage = "output") =>
    \A n \in 1..Len(data.out.stats) :
      LET e == data.out.stats[n] IN
        /\ DOMAIN e = {"wan_id", "name", "rx_bytes", "tx_bytes",
                       "rx_rate", "tx_rate", "unit"}
        /\ IsDigit(e.wan_id)

\* the client list of a success answer, nested or flat
ClientList(body) ==
  IF Has(body, "client") THEN body.client ELSE body.response.list

\* C19: for a success answer in either shape (response.list, or a flat
\* client list) every client get_clients returns has mac, name and
\* connected; a missing mac is "unknown", a missing name the hostname or
\* else "Unknown Device", and connected is True.
C19_ClientElementsComplete ==
  (data.fn = "get_clients" /\ data.stage = "output" /\ Success(data.in)) =>
    \A i \in 1..Len(data.out.client) :
      LET e == data.out.client[i]
          src == ClientList(data.in)[i]
      IN /\ {"mac", "name", "connected"} \subseteq DOMAIN e
         /\ e.connected = TRUE
         /\ e.mac = Get(src, "mac", "unknown")
         /\ e.name = Get(src, "name", Get(src, "hostname", "Unknown Device"))

\* C20: whenever the WAN status lists an interface, get_traffic_stats
\* returns a non-empty list with an entry for at least one listed
\* interface, whatever the two traffic endpoints answer.
C20_KnownInterfaceSurvives ==
  (TrafficDone /\ ReportedIds # {})
    => \E n \in 1..Len(data.out.stats) : data.out.stats[n].wan_id \in ReportedIds

\* the URL scheme of a request: path style or query style
UrlScheme(url) == url[1]

\* C21: for traffic statistics the request sent after the primary request
\* produced nothing uses the other URL scheme (path style /api/<function>
\* versus query style /cgi-bin/MANGA/api.cgi?func=<function>).
C21_SchemeFallback ==
  \A t \in Tasks :
    LET l == task[t] IN
      (l.op = "get_traffic_stats" /\ l.phase = "wanstats"
         /\ l.pc = "req_wait")
        => UrlScheme(l.first.req.url) # UrlScheme(MakeReq("traffic", 0).url)

\* C22: the config flow reports rejected credentials as invalid_auth, a
\* certificate failure as ssl_error and every other failure (unreachable
\* host, transport error, unexpected exception) as unknown, and creates an
\* entry only when connect() returned True.
C22_SetupErrorClassified ==
  \A t \in Tasks :
    LET l == task[t]
        shown == AsyncStepUser(l.result)
    IN (l.op = "connect" /\ l.pc = "done") =>
         /\ l.hs \in {"login_401", "login_fail", "verify_401"}
              => shown = "invalid_auth"
         /\ l.hs \in {"login_cert", "verify_cert"} => shown = "ssl_error"
         /\ l.hs \in {"login_err", "verify_err", "verify_http",
                       "login_badjson", "verify_badjson"}
              => shown = "unknown"
         /\ shown = "create_entry" => l.result = "True"

\* C23: when api.connect() returns False, async_setup_entry fails with
\* ConfigEntryAuthFailed, not with ConfigEntryNotReady.
C23_SetupAuthFailed ==
  \A t \in Tasks :
    (task[t].op = "connect" /\ task[t].pc = "done"
       /\ task[t].result = "False")
      => AsyncSetupEntry(task[t].result) = "ConfigEntryAuthFailed"

C25_InvalidationDisconnects ==
  \A t \in Tasks :
    LET l == task[t] IN
      (l.op \in Accessors /\ l.pc = "done" /\ l.expiry # "none"
         /\ l.apiEnd = "Exception" /\ (l.retryUnauth \/ l.nreq = 1))
        => ~connected

\* C26: connect() returns True after a handshake only if the login answer
\* of that handshake supplied a bauth cookie; a login answer with stat ok
\* and no cookie makes it return False, also on a reconnect.
C26_CookieFromThisHandshake ==
  [][\A t \in Tasks, ans \in LoginBodies, now \in Clock :
       (/\ task[t].op \in {"connect", "ensure_connected"}
        /\ ans.kind = "ok" /\ ~CookieSupplied(ans.jar, ans.hdr)
        /\ LoginBody(t, ans, now))
         => (task'[t].pc = "done" /\ task'[t].result = "False")]_vars

\* C27: in every reachable state, under any interleaving of connect,
\* ensure_connected, data calls and close, an Authenticated session holds
\* a non-empty auth cookie.
C27_AuthenticatedHasCookie == connected => auth_cookie # NoCookie

\* C28: no failure is sticky: a data call during which the router accepts
\* the credentials (login stat ok, the client holding a session cookie
\* afterwards), answers the verification with a JSON body and answers the
\* data request with the data (an answer that the session has expired to
\* the first attempt included) sends its request, returns the router's
\* data and leaves the session authenticated, whatever state earlier
\* calls, failures or close() left behind.
C28_NoFailureSticky ==
  \A t \in Tasks :
    LET l == task[t] IN
      (l.op \in Accessors /\ l.pc = "done" /\ l.normal)
        => /\ connected
           /\ l.nreq >= 1
           /\ l.apiEnd = "returned"
           /\ l.result = IF l.op = "get_location" THEN "payload" ELSE "data"

C28_Witness ==
  \E t \in Tasks :
    /\ task[t].op \in Accessors /\ task[t].pc = "done" /\ task[t].normal
    /\ task[t].expiry # "none" /\ task[t].nreauth = 1
    /\ task[t].result = "data" /\ connected

\* the outcomes of the requests a finished accessor call has made
Hist(t) == task[t].hist

Phases(t) == [i \in 1..Len(Hist(t)) |-> Hist(t)[i].phase]

C31_PollOutcomes ==
  (hass.stage = "idle" /\ hass.outcome # "none")
    => /\ hass.outcome \in {"dict", "UpdateFailed"}
       /\ hass.outcome = "dict"
            => (DOMAIN hass.data = Gathered /\ hass.ensure = "True"
                  /\ hass.called /\ hass.errs = NoErrors)
       /\ hass.ensure # "True"
            => (hass.outcome = "UpdateFailed" /\ ~hass.called)
       /\ (\E k \in Gathered : hass.errs[k] # "none")
            => hass.outcome = "UpdateFailed"

C31_Witness ==
  /\ hass.stage = "idle" /\ hass.outcome = "UpdateFailed"
  /\ hass.ensure = "True" /\ hass.called
  /\ hass.errs.wan_status # "none"
  /\ Truthy(hass.data)

\* the item of the coordinator data a sensor stands for
SensorItem(name, d) ==
  CASE name = "system_temperature" -> d.thermal_sensors.sensors
    [] name = "fan_1_speed" -> d.fan_speeds.fans
    [] name \in {"system_download_rate", "system_upload_rate"} ->
         IF Truthy(d.traffic_stats.stats)
           THEN <<SystemTraffic(d.traffic_stats.stats)>> ELSE <<>>
    [] name = "device_name" ->
         IF Truthy(d.device_info.device_info)
           THEN <<d.device_info.device_info>> ELSE <<>>
    [] name = "wan1_download_rate" ->
         SelectSeq(d.traffic_stats.stats, LAMBDA x : x.wan_id = "1")
    [] OTHER ->
         SelectSeq(d.wan_status.connection, LAMBDA x : x.id = "1")

\* C32: after every successful update each sensor entity reports the value
\* computed from the latest coordinator data while that data still holds
\* its item, never the snapshot it was created with.
C32_SensorsFollowData ==
  (hass.stage # "off" /\ hass.sensors_setup /\ hass.outcome = "dict")
    => \A n \in SensorNames :
         LET e == hass.sensors[n]
             item == SensorItem(n, hass.data)
         IN (e.exists /\ item # <<>>)
              => NativeValue(n, e, hass.data) = ValueFn(e.key, item[1])

\* C33: when the router reports gps = true with a latitude and a
\* longitude, the device tracker setup creates a GPS tracker, and after
\* every update the tracker shows the latitude and longitude of the latest
\* location data.
C33_GpsTrackerFollows ==
  [][/\ ("gps" \in hass.router.items /\ TrackerSetup)
          => /\ hass'.gps.exists
             /\ hass'.gps.latitude = Location(hass.router).location.latitude
             /\ hass'.gps.longitude = Location(hass.router).location.longitude
     /\ \A r \in RouterStates, errs \in GatherErrors :
          (hass.gps.exists /\ UpdateGather(r, errs) /\ hass'.outcome = "dict")
            => /\ hass'.gps.latitude =
                    Get(Location(r).location, "latitude", NoneValue)
               /\ hass'.gps.longitude =
                    Get(Location(r).location, "longitude", NoneValue)]_vars

====
